---- MODULE Spec2Model ----
(***************************************************************************)
(* Model of mcmx/compiler/sample.py: the compilation of a probabilistic    *)
(* model definition into a prior-predictive sampler.  compile_to_sampler   *)
(* parses the model's source, rewrites the tree with SamplerCompiler (an   *)
(* ast.NodeTransformer), recompiles it, executes it in the caller's        *)
(* namespace and returns the function bound under compiler.fn_name.        *)
(*                                                                         *)
(* Syntax trees are records carrying the ast class name in `type` and the  *)
(* fields of that class the code reads or writes.                          *)
(***************************************************************************)
EXTENDS Integers, Sequences, FiniteSets, TLC

VARIABLES
    model,        \* the parsed source of the model definition (a FunctionDef)
    call,         \* number of the current call of compile_to_sampler
    pc,           \* position of the driver inside the current call
    tree,         \* the tree being rewritten in place
    idx,          \* number of body statements generic_visit has visited
    compiler,     \* the SamplerCompiler instance: model_vars and fn_name
    flags,        \* do_add_sample_shape of each visited statement ("n/a" if none)
    namespace,    \* the caller-supplied namespace of the current call
    sampler_fn,   \* the driver's local sampler_fn
    results       \* what each finished call returned or raised

vars == <<model, call, pc, tree, idx, compiler, flags, namespace, sampler_fn, results>>

----------------------------------------------------------------------------
(* Bounds of the checked inputs.                                           *)
MaxBody == 2
MaxArgs == 2
MaxParams == 2
MaxCalls == 2

----------------------------------------------------------------------------
(* ast node constructors.                                                  *)
Name(id) == [type |-> "Name", id |-> id]
Constant(value) == [type |-> "Constant", value |-> value]
Tuple(elts) == [type |-> "Tuple", elts |-> elts]
Attribute(value, attr) == [type |-> "Attribute", value |-> value, attr |-> attr]
keyword(name, value) == [type |-> "keyword", arg |-> name, value |-> value]
Call(func, args, keywords) ==
    [type |-> "Call", func |-> func, args |-> args, keywords |-> keywords]
BinOp(left, op, right) == [type |-> "BinOp", left |-> left, op |-> op, right |-> right]
Expr(value) == [type |-> "Expr", value |-> value]
Assign(targets, value) == [type |-> "Assign", targets |-> targets, value |-> value]
arg(name) == [type |-> "arg", arg |-> name]
Arguments(posonlyargs, args, defaults) ==
    [type |-> "arguments", posonlyargs |-> posonlyargs, args |-> args, defaults |-> defaults]
FunctionDef(name, args, body, decorator_list) ==
    [type |-> "FunctionDef", name |-> name, args |-> args, body |-> body,
     decorator_list |-> decorator_list]

isinstance(node, class) == node.type = class

InSeq(e, s) == \E i \in 1..Len(s) : s[i] = e

SeqsUpTo(S, n) == UNION {[1..m -> S] : m \in 0..n}

None == [type |-> "NoneType"]

----------------------------------------------------------------------------
(* utils.read_object_name: the dotted path of a Name or of a chain of      *)
(* Attribute accesses rooted at a Name.                                    *)
RECURSIVE read_object_name(_)
read_object_name(node) ==
    IF isinstance(node, "Name")
    THEN node.id
    ELSE read_object_name(node.value) \o "." \o node.attr

(* is_leaf_node: False at the first Name parameter found in model_vars.    *)
is_leaf_node(params, model_vars) ==
    ~ \E i \in 1..Len(params) :
        isinstance(params[i], "Name") /\ InSeq(params[i].id, model_vars)

(* A variant that binds the distribution's name instead of the variable's. *)
new_sample_expression_wrong_target(name, distribution, arguments, do_add_sample_shape) ==
    LET args == <<Name("rng_key")>>
                \o (IF do_add_sample_shape THEN <<Name("sample_shape")>> ELSE <<>>)
    IN  Assign(<<Name(distribution)>>,
               Call(Attribute(Call(Name(distribution), arguments, <<>>), "sample"),
                    args, <<>>))

(* new_sample_expression: name = distribution(arguments).sample(args).     *)
new_sample_expression(name, distribution, arguments, do_add_sample_shape) ==
    LET args == <<Name("rng_key")>>
                \o (IF do_add_sample_shape THEN <<Name("sample_shape")>> ELSE <<>>)
    IN  Assign(<<Name(name)>>,
               Call(Attribute(Call(Name(distribution), arguments, <<>>), "sample"),
                    args, <<>>))

(* The outcome of visiting one statement: the node put in its place, the   *)
(* registry afterwards, whether ValueError was raised and the leaf flag.   *)
Outcome(node, model_vars, raised, flag) ==
    [node |-> node, model_vars |-> model_vars, raised |-> raised, flag |-> flag]

(* SamplerCompiler.visit_Expr *)
visit_Expr(node, model_vars) ==
    IF isinstance(node.value, "BinOp") /\ node.value.op = "MatMult"
    THEN IF ~ isinstance(node.value.left, "Name")
         THEN Outcome(node, model_vars, TRUE, "n/a")
         ELSE LET var_name == node.value.left.id
                  appended == Append(model_vars, var_name)
                  right    == node.value.right
              IN  IF ~ isinstance(right, "Call")
                  THEN Outcome(node, appended, TRUE, "n/a")
                  ELSE IF \E i \in 1..Len(right.args) :
                             ~ (isinstance(right.args[i], "Name")
                                \/ isinstance(right.args[i], "Constant"))
                       THEN Outcome(node, appended, TRUE, "n/a")
                       ELSE LET do_add_sample_shape == is_leaf_node(right.args, appended)
                            IN  Outcome(new_sample_expression(
                                            var_name, read_object_name(right.func),
                                            right.args, do_add_sample_shape),
                                        appended, FALSE,
                                        IF do_add_sample_shape THEN "leaf" ELSE "nonleaf")
    ELSE Outcome(node, model_vars, FALSE, "n/a")

(* A variant that also records the target of a plain assignment.          *)
visit_recording_assignments(node, model_vars) ==
    IF isinstance(node, "Expr")
    THEN visit_Expr(node, model_vars)
    ELSE Outcome(node, Append(model_vars, node.targets[1].id), FALSE, "n/a")

(* NodeTransformer.visit on a body statement: visit_Expr for ast.Expr,     *)
(* generic_visit otherwise, which finds nothing to rewrite in an Assign.   *)
visit(node, model_vars) ==
    IF isinstance(node, "Expr")
    THEN visit_Expr(node, model_vars)
    ELSE Outcome(node, model_vars, FALSE, "n/a")

(* A variant that stores the name the function had before it was renamed. *)
visit_FunctionDef_storing_old_name(node) ==
    LET new_node ==
            [node EXCEPT
                !.args.args = <<arg("rng_key")>> \o @ \o <<arg("sample_shape")>>,
                !.args.defaults = Append(@, Tuple(<<>>)),
                !.decorator_list = <<>>,
                !.name = @ \o "_sampler"]
    IN  [node |-> new_node, fn_name |-> node.name]

(* SamplerCompiler.visit_FunctionDef, up to the recursion into the body:   *)
(* the changed node and the name stored in self.fn_name.                   *)
visit_FunctionDef(node) ==
    LET new_node ==
            [node EXCEPT
                !.args.args = <<arg("rng_key")>> \o @ \o <<arg("sample_shape")>>,
                !.args.defaults = Append(@, Tuple(<<>>)),
                !.decorator_list = <<>>,
                !.name = @ \o "_sampler"]
    IN  [node |-> new_node, fn_name |-> new_node.name]

(* A variant whose registry is one list shared by all instances.           *)
SamplerCompiler_sharing_model_vars(previous) ==
    [model_vars |-> IF previous = None THEN <<>> ELSE previous.model_vars,
     fn_name |-> ""]

(* SamplerCompiler.__init__.  `previous` is the instance an earlier call    *)
(* built (None on the first call); a new instance takes nothing from it.   *)
SamplerCompiler(previous) == [model_vars |-> <<>>, fn_name |-> ""]

(* jax.jit wraps the function and keeps its behaviour.                     *)
jit(fn) == [type |-> "jitted", fn |-> fn]

----------------------------------------------------------------------------
(* The model definitions the calls are checked on.                         *)
Param(j) == arg(CASE j = 1 -> "a" [] j = 2 -> "b" [] OTHER -> "c")

(* k positional parameters, the first np positional-only, the last d with  *)
(* defaults; the default of the j-th parameter is the constant j.          *)
Signature(k, np, d) ==
    Arguments([j \in 1..np |-> Param(j)],
              [j \in 1..(k - np) |-> Param(np + j)],
              [j \in 1..d |-> Constant(k - d + j)])

Signatures ==
    UNION {UNION {{Signature(k, np, d) : d \in 0..k} : np \in 0..k} : k \in 0..MaxParams}

ArgExprs == {Name("x"), Constant(0)}
ArgLists == SeqsUpTo(ArgExprs, MaxArgs)
NestedCall == Call(Name("f"), <<Constant(1)>>, <<>>)

Declaration(left, right) == Expr(BinOp(left, "MatMult", right))

(* y @ Normal(...) with every list of arguments, and one statement of each *)
(* other shape the rewriter tells apart.                                   *)
Statements ==
    {Declaration(Name("y"), Call(Name("Normal"), a, <<>>)) : a \in ArgLists}
    \cup {\* x @ Normal(0)
          Declaration(Name("x"), Call(Name("Normal"), <<Constant(0)>>, <<>>)),
          \* x @ dist.Normal(x, a)
          Declaration(Name("x"), Call(Attribute(Name("dist"), "Normal"),
                                      <<Name("x"), Name("a")>>, <<>>)),
          \* x @ Normal(0, scale=1)
          Declaration(Name("x"), Call(Name("Normal"), <<Constant(0)>>,
                                      <<keyword("scale", Constant(1))>>)),
          \* x @ Normal(0, scale=f(1))
          Declaration(Name("x"), Call(Name("Normal"), <<Constant(0)>>,
                                      <<keyword("scale", NestedCall)>>)),
          \* x @ Normal(f(1))
          Declaration(Name("x"), Call(Name("Normal"), <<NestedCall>>, <<>>)),
          \* Normal(0) @ Normal(0)
          Declaration(Call(Name("Normal"), <<Constant(0)>>, <<>>),
                      Call(Name("Normal"), <<Constant(0)>>, <<>>)),
          \* x @ 5
          Declaration(Name("x"), Constant(5)),
          \* x = f(1)
          Assign(<<Name("x")>>, NestedCall),
          \* z = x @ y
          Assign(<<Name("z")>>, BinOp(Name("x"), "MatMult", Name("y"))),
          \* x + y
          Expr(BinOp(Name("x"), "Add", Name("y")))}

Bodies == SeqsUpTo(Statements, MaxBody)

(* def m(a=1): x @ Normal(0) *)
PlainSignature == Signature(1, 0, 1)
PlainBody == <<Declaration(Name("x"), Call(Name("Normal"), <<Constant(0)>>, <<>>))>>

(* Every body under one signature and every signature over one body: the   *)
(* rewriter changes the signature in visit_FunctionDef and the statements  *)
(* in visit_Expr, and neither reads what the other writes.                 *)
Models ==
    {FunctionDef("m", PlainSignature, b, <<Name("model")>>) : b \in Bodies}
    \cup {FunctionDef("m", s, PlainBody, <<Name("model")>>) : s \in Signatures}

(* The namespace the caller supplies to every call.                        *)
NamespaceBefore == [n \in {"Normal", "dist", "f"} |-> [type |-> "object", name |-> n]]

(* The record kept of a call that has not finished.                        *)
Pending == [status |-> "pending", error |-> "", value |-> None, flags |-> <<>>]

----------------------------------------------------------------------------
Init ==
    /\ model \in Models
    /\ call = 1
    /\ pc = "start"
    /\ tree = None
    /\ idx = 0
    /\ compiler = None
    /\ flags = <<>>
    /\ namespace = NamespaceBefore
    /\ sampler_fn = None
    /\ results = [c \in 1..MaxCalls |-> Pending]

(* source = inspect.getsource(model); tree = ast.parse(source) *)
Parse ==
    /\ pc = "start"
    /\ tree' = model
    /\ pc' = "parsed"
    /\ UNCHANGED <<model, call, idx, compiler, flags, namespace, sampler_fn, results>>

(* compiler = SamplerCompiler() *)
NewCompiler ==
    /\ pc = "parsed"
    /\ compiler' = SamplerCompiler(compiler)
    /\ pc' = "constructed"
    /\ UNCHANGED <<model, call, tree, idx, flags, namespace, sampler_fn, results>>

(* compiler.visit(tree) reaches visit_FunctionDef: the signature, the      *)
(* decorators and the name are changed, fn_name is recorded.               *)
EnterFunctionDef ==
    /\ pc = "constructed"
    /\ tree' = visit_FunctionDef(tree).node
    /\ compiler' = [compiler EXCEPT !.fn_name = visit_FunctionDef(tree).fn_name]
    /\ idx' = 0
    /\ pc' = "body"
    /\ UNCHANGED <<model, call, flags, namespace, sampler_fn, results>>

(* generic_visit visits the next statement of the body; a ValueError       *)
(* leaves compile_to_sampler at once.                                      *)
VisitStatement ==
    /\ pc = "body"
    /\ idx < Len(tree.body)
    /\ LET o == visit(tree.body[idx + 1], compiler.model_vars)
       IN  /\ compiler' = [compiler EXCEPT !.model_vars = o.model_vars]
           /\ IF o.raised
              THEN /\ pc' = "raised"
                   /\ results' = [results EXCEPT ![call] =
                          [status |-> "raised", error |-> "ValueError",
                           value |-> None, flags |-> flags]]
                   /\ UNCHANGED <<tree, idx, flags>>
              ELSE /\ tree' = [tree EXCEPT !.body[idx + 1] = o.node]
                   /\ idx' = idx + 1
                   /\ flags' = Append(flags, o.flag)
                   /\ UNCHANGED <<pc, results>>
    /\ UNCHANGED <<model, call, namespace, sampler_fn>>

(* visit_FunctionDef returns the node; tree = compiler.visit(tree) *)
LeaveFunctionDef ==
    /\ pc = "body"
    /\ idx = Len(tree.body)
    /\ pc' = "rewritten"
    /\ UNCHANGED <<model, call, tree, idx, compiler, flags, namespace, sampler_fn, results>>

(* sampler_fn = compile(tree, filename="<ast>", mode="exec") *)
Compile ==
    /\ pc = "rewritten"
    /\ sampler_fn' = [type |-> "code", tree |-> tree]
    /\ pc' = "compiled"
    /\ UNCHANGED <<model, call, tree, idx, compiler, flags, namespace, results>>

(* exec(sampler_fn, namespace): exec puts __builtins__ in the namespace    *)
(* and the def statement binds the function under its name.                *)
Exec ==
    /\ pc = "compiled"
    /\ namespace' =
          [n \in DOMAIN namespace \cup {"__builtins__", sampler_fn.tree.name} |->
              IF n = sampler_fn.tree.name
              THEN [type |-> "function", def |-> sampler_fn.tree]
              ELSE IF n \in DOMAIN namespace
                   THEN namespace[n]
                   ELSE [type |-> "object", name |-> n]]
    /\ pc' = "executed"
    /\ UNCHANGED <<model, call, tree, idx, compiler, flags, sampler_fn, results>>

(* sampler_fn = namespace[compiler.fn_name]; KeyError if it is not bound.  *)
Lookup ==
    /\ pc = "executed"
    /\ IF compiler.fn_name \in DOMAIN namespace
       THEN /\ sampler_fn' = namespace[compiler.fn_name]
            /\ pc' = "looked_up"
            /\ UNCHANGED results
       ELSE /\ pc' = "raised"
            /\ results' = [results EXCEPT ![call] =
                   [status |-> "raised", error |-> "KeyError",
                    value |-> None, flags |-> flags]]
            /\ UNCHANGED sampler_fn
    /\ UNCHANGED <<model, call, tree, idx, compiler, flags, namespace>>

(* sampler_fn = jax.jit(sampler_fn); return sampler_fn *)
Return ==
    /\ pc = "looked_up"
    /\ results' = [results EXCEPT ![call] =
           [status |-> "returned", error |-> "", value |-> jit(sampler_fn),
            flags |-> flags]]
    /\ pc' = "returned"
    /\ UNCHANGED <<model, call, tree, idx, compiler, flags, namespace, sampler_fn>>

(* The caller compiles the same model again, with a fresh namespace.       *)
NextCall ==
    /\ pc \in {"returned", "raised"}
    /\ call < MaxCalls
    /\ call' = call + 1
    /\ pc' = "start"
    /\ tree' = None
    /\ idx' = 0
    /\ flags' = <<>>
    /\ namespace' = NamespaceBefore
    /\ sampler_fn' = None
    /\ UNCHANGED <<model, compiler, results>>

Next ==
    \/ Parse
    \/ NewCompiler
    \/ EnterFunctionDef
    \/ VisitStatement
    \/ LeaveFunctionDef
    \/ Compile
    \/ Exec
    \/ Lookup
    \/ Return
    \/ NextCall

Spec == Init /\ [][Next]_vars

----------------------------------------------------------------------------
(* Vocabulary of the properties.                                           *)

(* A random-variable declaration of the source: the statement `L @ R`.     *)
IsDeclaration(s) ==
    isinstance(s, "Expr") /\ isinstance(s.value, "BinOp") /\ s.value.op = "MatMult"

IsNameOrConstant(e) == isinstance(e, "Name") \/ isinstance(e, "Constant")

(* The statements of the source the current call has visited and replaced. *)
Visited == 1..Len(flags)

(* The declarations among them that visit_Expr accepted.                   *)
Accepted == {i \in Visited : flags[i] # "n/a"}

(* The targets of the declarations that stand before statement i.          *)
DeclaredBefore(i) ==
    {model.body[j].value.left.id :
        j \in {j \in 1..(i - 1) : IsDeclaration(model.body[j])
                                     /\ isinstance(model.body[j].value.left, "Name")}}

(* The names declaration i passes as positional arguments.                 *)
ArgumentNames(i) ==
    LET a == model.body[i].value.right.args
    IN  {a[k].id : k \in {k \in 1..Len(a) : isinstance(a[k], "Name")}}

(* The declaration grammar: a name on the left, a call on the right, every *)
(* argument passed to the call a name or a constant.                       *)
Violates(s) ==
    /\ IsDeclaration(s)
    /\ \/ ~ isinstance(s.value.left, "Name")
       \/ ~ isinstance(s.value.right, "Call")
       \/ \E k \in 1..Len(s.value.right.args) : ~ IsNameOrConstant(s.value.right.args[k])
       \/ \E k \in 1..Len(s.value.right.keywords) :
              ~ IsNameOrConstant(s.value.right.keywords[k].value)

Violations == {i \in 1..Len(model.body) : Violates(model.body[i])}

(* The parameters a caller may pass by position, in order, and the default *)
(* of the j-th of them: defaults belong to the last Len(defaults) of them. *)
Positional(a) == a.posonlyargs \o a.args

DefaultOf(a, j) ==
    LET first == Len(Positional(a)) - Len(a.defaults)
    IN  IF j > first THEN a.defaults[j - first] ELSE None

Rewriting == pc \in {"body", "rewritten", "compiled", "executed", "looked_up", "returned"}
Rewritten == pc \in {"rewritten", "compiled", "executed", "looked_up", "returned"}

(* C1: a declaration is classified leaf if and only if none of its         *)
(* arguments is a name that an earlier declaration of the body declared.   *)
C1_LeafIffNoEarlierDeclaredArgument ==
    \A i \in Accepted :
        (flags[i] = "leaf") <=> (ArgumentNames(i) \cap DeclaredBefore(i) = {})

(* C2: the rewritten function takes [rng_key, p1..pk, sample_shape] by      *)
(* position, rng_key without default, sample_shape with the empty tuple,   *)
(* every original parameter with its original default or none.             *)
C2_SignatureGainsRngKeyAndSampleShape ==
    Rewriting =>
        LET P == Positional(model.args)
            Q == Positional(tree.args)
        IN  /\ Q = <<arg("rng_key")>> \o P \o <<arg("sample_shape")>>
            /\ DefaultOf(tree.args, 1) = None
            /\ DefaultOf(tree.args, Len(Q)) = Tuple(<<>>)
            /\ \A j \in 1..Len(P) : DefaultOf(tree.args, j + 1) = DefaultOf(model.args, j)

(* C3: the rewriter raises on every declaration that violates the grammar  *)
(* and on no statement that respects it.                                   *)
C3_RaisesExactlyOnGrammarViolations ==
    /\ \A i \in Visited : ~ Violates(model.body[i])
    /\ (pc = "raised" /\ results[call].error = "ValueError")
            => Violates(model.body[Len(flags) + 1])

(* C4: a grammar violation at statement i stops the compilation there: no  *)
(* statement from i on is rewritten, nothing is compiled, executed, looked *)
(* up or returned, and the namespace stays as the caller supplied it.      *)
C4_GrammarViolationIsFatal ==
    \A i \in Violations :
        /\ Len(flags) < i
        /\ ~ Rewritten
        /\ pc \in {"body", "raised"} =>
               \A j \in i..Len(model.body) : tree.body[j] = model.body[j]
        /\ namespace = NamespaceBefore
        /\ results[call].status # "returned"

(* C7: a declaration that passes its own target, declared by no earlier    *)
(* statement, and no earlier-declared name, is classified leaf.            *)
C7_SelfReferenceIsLeaf ==
    \A i \in Accepted :
        LET v == model.body[i].value.left.id
        IN  (v \in ArgumentNames(i) /\ ArgumentNames(i) \cap DeclaredBefore(i) = {})
                => flags[i] = "leaf"

(* C8: an accepted declaration v @ D(arguments) becomes                    *)
(* v = D(arguments).sample(rng_key[, sample_shape]) with every argument of *)
(* the call kept in order and sample_shape passed exactly to leaves.       *)
C8_SampleStatementKeepsArguments ==
    \A i \in Accepted :
        LET src == model.body[i].value
        IN  tree.body[i] =
                Assign(<<Name(src.left.id)>>,
                       Call(Attribute(Call(Name(read_object_name(src.right.func)),
                                           src.right.args, src.right.keywords),
                                      "sample"),
                            IF flags[i] = "leaf"
                            THEN <<Name("rng_key"), Name("sample_shape")>>
                            ELSE <<Name("rng_key")>>,
                            <<>>))

(* A sampling assignment: <target> = <...>.sample(...).                     *)
IsSampling(s) ==
    /\ isinstance(s, "Assign")
    /\ isinstance(s.value, "Call")
    /\ isinstance(s.value.func, "Attribute")
    /\ s.value.func.attr = "sample"

RECURSIVE DeclarationTargets(_)
DeclarationTargets(body) ==
    IF body = <<>> THEN <<>>
    ELSE (IF IsDeclaration(Head(body)) THEN <<Head(body).value.left.id>> ELSE <<>>)
         \o DeclarationTargets(Tail(body))

RECURSIVE SamplingTargets(_)
SamplingTargets(body) ==
    IF body = <<>> THEN <<>>
    ELSE (IF IsSampling(Head(body)) THEN <<Head(body).targets[1].id>> ELSE <<>>)
         \o SamplingTargets(Tail(body))

(* C5: the rewritten body has the length of the source body; a declaration *)
(* became a sampling assignment to its target, every other statement is    *)
(* the source statement; so the sampling assignments bind the declared     *)
(* targets in the order of the declarations.                               *)
C5_BodyRewrittenOneForOne ==
    Rewritten =>
        /\ Len(tree.body) = Len(model.body)
        /\ \A i \in 1..Len(model.body) :
              IF IsDeclaration(model.body[i])
              THEN /\ IsSampling(tree.body[i])
                   /\ tree.body[i].targets = <<Name(model.body[i].value.left.id)>>
              ELSE tree.body[i] = model.body[i]
        /\ SamplingTargets(tree.body) = DeclarationTargets(model.body)

(* A rewritten body that holds a declaration and a plain assignment.       *)
C5_Witness ==
    /\ Rewritten
    /\ \E i, j \in 1..Len(model.body) :
          /\ i < j
          /\ IsDeclaration(model.body[i])
          /\ isinstance(model.body[j], "Assign")
          /\ IsSampling(tree.body[i])

(* C6: every call on the same model definition ends the same way, with the *)
(* same rewritten function and the same leaf flags, and every call starts  *)
(* with an empty registry and no recorded name.                            *)
C6_CompilationsAgree ==
    /\ \A c1, c2 \in 1..MaxCalls :
          (results[c1].status # "pending" /\ results[c2].status # "pending")
              => results[c1] = results[c2]
    /\ pc = "constructed" => compiler = [model_vars |-> <<>>, fn_name |-> ""]

(* A second call has returned a sampler for a model with a dependency.     *)
C6_Witness ==
    /\ call = 2
    /\ pc = "returned"
    /\ results[1].status = "returned"
    /\ InSeq("nonleaf", flags)
    /\ InSeq("leaf", flags)

(* The targets of the plain assignments that stand before statement i.     *)
AssignedBefore(i) ==
    {model.body[j].targets[1].id :
        j \in {j \in 1..(i - 1) : isinstance(model.body[j], "Assign")}}

(* C9 as stated: a plain assignment is left unchanged, and a later         *)
(* declaration that passes its target is accepted and classified non-leaf. *)
C9_AssignedNameMakesNonLeaf ==
    /\ \A j \in Visited :
          isinstance(model.body[j], "Assign") => tree.body[j] = model.body[j]
    /\ \A i \in Accepted :
          ArgumentNames(i) \cap AssignedBefore(i) # {} => flags[i] = "nonleaf"

(* C9 as the code has it: a plain assignment is left unchanged and adds    *)
(* nothing to the registry, which holds the targets of the declarations    *)
(* visited; a declaration whose positional arguments are names and         *)
(* constants is accepted whatever the names are bound by; and a            *)
(* declaration none of whose name arguments is the target of a declaration *)
(* up to it is a leaf, also when a plain assignment bound such a name.     *)
C9_AssignedNameStaysOutOfRegistry ==
    /\ \A j \in Visited :
          isinstance(model.body[j], "Assign") => tree.body[j] = model.body[j]
    /\ pc = "body" =>
          compiler.model_vars = DeclarationTargets(SubSeq(model.body, 1, Len(flags)))
    /\ (pc = "raised" /\ results[call].error = "ValueError") =>
          LET s == model.body[Len(flags) + 1]
          IN  \/ ~ isinstance(s.value.left, "Name")
              \/ ~ isinstance(s.value.right, "Call")
              \/ \E k \in 1..Len(s.value.right.args) :
                     ~ IsNameOrConstant(s.value.right.args[k])
    /\ \A i \in Accepted :
          ArgumentNames(i) \cap DeclaredBefore(i + 1) = {} => flags[i] = "leaf"

(* A declaration passing a name that only a plain assignment bound was     *)
(* accepted and classified leaf.                                           *)
C9_Witness ==
    \E i \in Accepted :
        /\ ArgumentNames(i) \cap AssignedBefore(i) # {}
        /\ ArgumentNames(i) \cap DeclaredBefore(i + 1) = {}
        /\ flags[i] = "leaf"
        /\ Rewritten

----------------------------------------------------------------------------
(* What the code does guarantee where C1, C2, C3, C4, C7 and C8 fail.      *)

HasKeywords(s) ==
    IsDeclaration(s) /\ isinstance(s.value.right, "Call") /\ s.value.right.keywords # <<>>

NoKeywords == \A i \in 1..Len(model.body) : ~ HasKeywords(model.body[i])

(* The flag is computed against the registry with the target already in it. *)
LeafIffNoArgumentDeclaredUpToItself ==
    \A i \in Accepted :
        (flags[i] = "leaf") <=> (ArgumentNames(i) \cap DeclaredBefore(i + 1) = {})

(* Without positional-only parameters the signature is as C2 has it.       *)
SignatureWithoutPositionalOnly ==
    model.args.posonlyargs = <<>> => C2_SignatureGainsRngKeyAndSampleShape

(* Without keyword arguments violations are raised, fatal, and the         *)
(* arguments are kept, as C3, C4 and C8 have it.                           *)
GrammarWithoutKeywords ==
    NoKeywords => /\ C3_RaisesExactlyOnGrammarViolations
                  /\ C4_GrammarViolationIsFatal
                  /\ C8_SampleStatementKeepsArguments

====
